---------------------------- MODULE Spec2Model ----------------------------
(***************************************************************************)
(* Model of free_for_all.py: the MAT-file loader                           *)
(* (FreeForAll.load_problem_from_mat_file), the double-sided to split-form *)
(* converter (FreeForAll.convert_problem_from_double_sided) and the        *)
(* test-set iterator (FreeForAll.__iter__).                                *)
(*                                                                         *)
(* Floating-point values are modelled as IEEE extended reals: a finite     *)
(* value, +inf, -inf or NaN.  A finite value is a triple <<a, b, c>>       *)
(* standing for a*1e18 + b + c*1e-13, so that the sentinel threshold 9e19, *)
(* ordinary magnitudes and the tolerance 1e-10 are all integers.  The      *)
(* values used keep |b| < 1e18 and |c| < 1e13 (also after one              *)
(* subtraction), so comparison is lexicographic.                           *)
(***************************************************************************)
EXTENDS Integers, Sequences, FiniteSets

VARIABLES
    pc,        \* control position of the modelled call
    mat_dict,  \* content of the .mat file being loaded (spio.loadmat result)
    ld,        \* locals of load_problem_from_mat_file
    cv,        \* arguments and locals of convert_problem_from_double_sided
    problem,   \* the qpbenchmark.Problem returned by the converter
    listing,   \* os.listdir(self.data_dir), as obtained by __iter__
    pos,       \* number of listing entries the generator has gone through
    yielded,   \* problems yielded so far, in order
    reads,     \* indices of the entries whose file has been read, in order
    requests   \* number of next() calls made by the consumer

vars == <<pc, mat_dict, ld, cv, problem, listing, pos, yielded, reads, requests>>

---------------------------------------------------------------------------
(* Bounds of the model.                                                    *)

\* Largest number of constraint rows handed to the converter.
MaxRows == 2
\* Largest number of columns of C handed to the converter.
MaxCols == 2
\* Largest number of rows of the matrix A stored in a .mat file.
MaxARows == 3
\* Largest dimension n (declared, or columns of A) of a .mat file.
MaxN == 2
\* Largest number of entries of the data directory.
MaxFiles == 3

---------------------------------------------------------------------------
(* IEEE extended reals.                                                    *)

Fin(a, b, c) == [k |-> "fin", v |-> <<a, b, c>>]
PInf == [k |-> "pinf", v |-> <<0, 0, 0>>]
NInf == [k |-> "ninf", v |-> <<0, 0, 0>>]
NaN == [k |-> "nan", v |-> <<0, 0, 0>>]
Zero == Fin(0, 0, 0)
One == Fin(0, 1, 0)

\* Tolerance 1e-10 of the equality test, in units of 1e-13.
TolUnits == 1000
\* Sentinel threshold 9e19, in units of 1e18.
SentinelUnits == 90

Tol == Fin(0, 0, TolUnits)
Sentinel == Fin(SentinelUnits, 0, 0)

\* Unary minus.
Neg(x) ==
    CASE x.k = "fin" -> Fin(-x.v[1], -x.v[2], -x.v[3])
      [] x.k = "pinf" -> NInf
      [] x.k = "ninf" -> PInf
      [] OTHER -> NaN

\* x - y; inf - inf of the same sign is NaN.
Sub(x, y) ==
    CASE x.k = "nan" \/ y.k = "nan" -> NaN
      [] x.k = "fin" /\ y.k = "fin" ->
            Fin(x.v[1] - y.v[1], x.v[2] - y.v[2], x.v[3] - y.v[3])
      [] x.k = "fin" -> Neg(y)
      [] y.k = "fin" -> x
      [] x.k = y.k -> NaN
      [] OTHER -> x

LexLt(a, b) ==
    \/ a[1] < b[1]
    \/ a[1] = b[1] /\ a[2] < b[2]
    \/ a[1] = b[1] /\ a[2] = b[2] /\ a[3] < b[3]

\* x < y; every comparison with NaN is false.
Lt(x, y) ==
    CASE x.k = "nan" \/ y.k = "nan" -> FALSE
      [] x.k = "fin" /\ y.k = "fin" -> LexLt(x.v, y.v)
      [] x.k = "ninf" -> y.k # "ninf"
      [] y.k = "pinf" -> x.k # "pinf"
      [] OTHER -> FALSE

Gt(x, y) == Lt(y, x)

\* abs(x), used only to state claims.
Abs(x) == IF Lt(x, Zero) THEN Neg(x) ELSE x

---------------------------------------------------------------------------
(* numpy / scipy.sparse helpers.  A vector is a sequence of values; a      *)
(* sparse matrix is [nrows, ncols, rows] with rows a sequence of nrows     *)
(* sequences of ncols values, the stored entries being the non-zero ones.  *)

Mat(r, c, rows) == [nrows |-> r, ncols |-> c, rows |-> rows]

\* np.asarray(mask).nonzero(): the indices where mask holds, ascending.
Nonzero(mask) ==
    LET F[j \in 0..Len(mask)] ==
            IF j = 0 THEN <<>>
            ELSE IF mask[j] THEN Append(F[j - 1], j) ELSE F[j - 1]
    IN  F[Len(mask)]

\* v[idx] for an index array or (through Nonzero) a boolean mask.
Take(v, idx) == [j \in 1..Len(idx) |-> v[idx[j]]]

\* M[idx]: row selection of a sparse matrix.
TakeRows(M, idx) == Mat(Len(idx), M.ncols, Take(M.rows, idx))

\* -M
NegMat(M) ==
    Mat(M.nrows, M.ncols,
        [i \in 1..M.nrows |-> [j \in 1..M.ncols |-> Neg(M.rows[i][j])]])

\* spa.vstack([M1, M2])
VStack(M1, M2) == Mat(M1.nrows + M2.nrows, M1.ncols, M1.rows \o M2.rows)

\* np.hstack([v1, v2])
HStack(v1, v2) == v1 \o v2

\* The .size of a scipy sparse matrix: the number of stored entries.
StoredInRow(row) == Cardinality({j \in 1..Len(row) : row[j] # Zero})
RECURSIVE SumStored(_)
SumStored(rows) ==
    IF rows = <<>> THEN 0 ELSE StoredInRow(Head(rows)) + SumStored(Tail(rows))
SparseSize(M) == SumStored(M.rows)

\* The .size of a numpy vector: its number of elements.
VecSize(v) == Len(v)

\* Optional values: None, or a present value.
None == [some |-> FALSE, val |-> <<>>]
Some(x) == [some |-> TRUE, val |-> x]

---------------------------------------------------------------------------
(* convert_problem_from_double_sided                                       *)

\* BoundsAreEqual with a non-strict comparison.
BoundsAreEqualLe(l, u) ==
    [i \in 1..Len(u) |-> ~Lt(Tol, Sub(u[i], l[i])) /\ Sub(u[i], l[i]).k # "nan"]

\* line 147: bounds_are_equal = u - l < 1e-10
BoundsAreEqual(l, u) == [i \in 1..Len(u) |-> Lt(Sub(u[i], l[i]), Tol)]

\* line 149
EqRows(bae) == Nonzero(bae)

\* line 153
IneqRows(bae) == Nonzero([i \in 1..Len(bae) |-> ~bae[i]])

\* HFinite with a non-strict comparison.
HFiniteLe(h) == [i \in 1..Len(h) |-> h[i].k # "nan"]

\* line 156: h_finite = h < np.inf
HFinite(h) == [i \in 1..Len(h) |-> Lt(h[i], PInf)]

\* lines 164-167: "X if X.size > 0 else None"
SparseOrNone(M) == IF SparseSize(M) > 0 THEN Some(M) ELSE None
VecOrNone(v) == IF VecSize(v) > 0 THEN Some(v) ELSE None

EmptyMat == Mat(0, 0, <<>>)
NoFrame ==
    [P |-> EmptyMat, q |-> <<>>, C |-> EmptyMat, l |-> <<>>, u |-> <<>>,
     lb |-> <<>>, ub |-> <<>>, bounds_are_equal |-> <<>>,
     A |-> EmptyMat, b |-> <<>>, G |-> EmptyMat, h |-> <<>>]
NoProblem ==
    [P |-> EmptyMat, q |-> <<>>, G |-> None, h |-> None, A |-> None,
     b |-> None, lb |-> <<>>, ub |-> <<>>]

\* Entry to the converter with its arguments bound.
CallConvert(P, q, C, l, u, lb, ub) ==
    [NoFrame EXCEPT !.P = P, !.q = q, !.C = C, !.l = l, !.u = u,
                    !.lb = lb, !.ub = ub]

\* lines 147-151: classify the rows, select the equality rows.
ClassifyF(f) ==
    LET bae == BoundsAreEqual(f.l, f.u)
    IN  [f EXCEPT !.bounds_are_equal = bae,
                  !.A = TakeRows(f.C, EqRows(bae)),
                  !.b = Take(f.u, EqRows(bae))]

\* StackF with the sign of the lower bounds forgotten.
StackFNoSign(f) ==
    LET ir == IneqRows(f.bounds_are_equal)
    IN  [f EXCEPT !.G = VStack(TakeRows(f.C, ir), NegMat(TakeRows(f.C, ir))),
                  !.h = HStack(Take(f.u, ir), Take(f.l, ir))]

\* lines 153-155: stack the upper and the lower side of the other rows.
StackF(f) ==
    LET ir == IneqRows(f.bounds_are_equal)
    IN  [f EXCEPT !.G = VStack(TakeRows(f.C, ir), NegMat(TakeRows(f.C, ir))),
                  !.h = HStack(Take(f.u, ir),
                               [j \in 1..Len(ir) |-> Neg(f.l[ir[j]])])]

\* lines 156-159: drop the rows whose right-hand side is not below +inf.
PruneF(f) ==
    LET hf == HFinite(f.h)
    IN  IF \E i \in 1..Len(hf) : ~hf[i]
        THEN [f EXCEPT !.G = TakeRows(f.G, Nonzero(hf)),
                       !.h = Take(f.h, Nonzero(hf))]
        ELSE f

\* lines 161-171: build the Problem, empty blocks replaced by None.
ReturnF(f) ==
    [P |-> f.P, q |-> f.q,
     G |-> SparseOrNone(f.G), h |-> VecOrNone(f.h),
     A |-> SparseOrNone(f.A), b |-> VecOrNone(f.b),
     lb |-> f.lb, ub |-> f.ub]

\* The converter as a function of its arguments.
convert_problem_from_double_sided(P, q, C, l, u, lb, ub) ==
    ReturnF(PruneF(StackF(ClassifyF(CallConvert(P, q, C, l, u, lb, ub)))))

Classify ==
    /\ pc = "convert"
    /\ cv' = ClassifyF(cv)
    /\ pc' = "stack"
    /\ UNCHANGED <<mat_dict, ld, problem, listing, pos, yielded, reads, requests>>

Stack ==
    /\ pc = "stack"
    /\ cv' = StackF(cv)
    /\ pc' = "prune"
    /\ UNCHANGED <<mat_dict, ld, problem, listing, pos, yielded, reads, requests>>

Prune ==
    /\ pc = "prune"
    /\ cv' = PruneF(cv)
    /\ pc' = "return"
    /\ UNCHANGED <<mat_dict, ld, problem, listing, pos, yielded, reads, requests>>

Return ==
    /\ pc = "return"
    /\ problem' = ReturnF(cv)
    /\ pc' = "returned"
    /\ UNCHANGED <<mat_dict, ld, cv, listing, pos, yielded, reads, requests>>

---------------------------------------------------------------------------
(* Specification of the converter alone: its arguments are drawn from      *)
(* bounded sets, then the converter runs.                                  *)

\* Bound values of a constraint row: -inf, +inf, 0, 0.999e-10, 1e-10.
BoundValues == {NInf, PInf, Zero, Fin(0, 0, TolUnits - 1), Tol}

\* The matrix C, m x n: all rows zero, all rows of ones, or the odd rows of
\* ones and the even rows zero.
CKinds == {"zeros", "ones", "mixed"}
CMat(kind, m, n) ==
    Mat(m, n, [i \in 1..m |-> [j \in 1..n |->
        IF kind = "ones" \/ (kind = "mixed" /\ i % 2 = 1) THEN One ELSE Zero]])

Identity(n) ==
    Mat(n, n, [i \in 1..n |-> [j \in 1..n |-> IF i = j THEN One ELSE Zero]])

NoFile ==
    [P |-> EmptyMat, q |-> <<>>, A |-> EmptyMat, l |-> <<>>, u |-> <<>>,
     n |-> 0, m |-> 0]

InitConvert ==
    /\ pc = "convert"
    /\ \E n \in 1..MaxCols, m \in 0..MaxRows, kind \in CKinds :
         \E l \in [1..m -> BoundValues], u \in [1..m -> BoundValues] :
            cv = CallConvert(Identity(n), [j \in 1..n |-> Zero],
                             CMat(kind, m, n), l, u,
                             [j \in 1..n |-> Zero], [j \in 1..n |-> PInf])
    /\ mat_dict = NoFile
    /\ ld = NoFile
    /\ problem = NoProblem
    /\ listing = <<>>
    /\ pos = 0
    /\ yielded = <<>>
    /\ reads = <<>>
    /\ requests = 0

NextConvert == Classify \/ Stack \/ Prune \/ Return

SpecConvert == InitConvert /\ [][NextConvert]_vars

---------------------------------------------------------------------------
(* load_problem_from_mat_file                                              *)

\* Python's resolution of a slice bound i against a length.
PyIndex(i, len) ==
    IF i < 0 THEN (IF len + i < 0 THEN 0 ELSE len + i)
    ELSE IF i > len THEN len ELSE i

\* v[start:]
SliceFrom(v, start) == SubSeq(v, PyIndex(start, Len(v)) + 1, Len(v))

\* v[:stop]
SliceTo(v, stop) == SubSeq(v, 1, PyIndex(stop, Len(v)))

\* M[:stop] on the rows of a sparse matrix
RowsTo(M, stop) ==
    Mat(PyIndex(stop, M.nrows), M.ncols, SliceTo(M.rows, stop))

\* NormalizeVal with the negative side forgotten.
NormalizeValPos(x) == IF Gt(x, Sentinel) THEN PInf ELSE x

\* NormalizeVal with non-strict comparisons.
NormalizeValGe(x) ==
    IF ~Lt(x, Sentinel) /\ x.k # "nan" THEN PInf
    ELSE IF ~Gt(x, Neg(Sentinel)) /\ x.k # "nan" THEN NInf ELSE x

\* lines 98-103 on one entry: x[x > +9e19] = +inf, then x[x < -9e19] = -inf
NormalizeVal(x) ==
    IF Gt(x, Sentinel) THEN PInf
    ELSE IF Lt(x, Neg(Sentinel)) THEN NInf ELSE x

NormalizeVec(v) == [i \in 1..Len(v) |-> NormalizeVal(v[i])]

NormalizeMat(M) ==
    Mat(M.nrows, M.ncols, [i \in 1..M.nrows |-> NormalizeVec(M.rows[i])])

\* lines 87-94: the fields of the file; the casts keep every value.
LoadF(file) ==
    [P |-> file.P, q |-> file.q, A |-> file.A, l |-> file.l, u |-> file.u,
     n |-> file.n, m |-> file.m]

\* ShapeOk with m read as the number of rows of C.
ShapeOkStacked(f) == <<f.A.nrows, f.A.ncols>> = <<f.m + f.n, f.n>>

\* line 95: assert A.shape == (m, n)
ShapeOk(f) == <<f.A.nrows, f.A.ncols>> = <<f.m, f.n>>

\* lines 98-103: A, l and u are normalised.
NormalizeF(f) ==
    [f EXCEPT !.A = NormalizeMat(f.A), !.l = NormalizeVec(f.l),
              !.u = NormalizeVec(f.u)]

\* lines 106-114: split off the box bounds and call the converter.
SplitF(f) ==
    CallConvert(f.P, f.q, RowsTo(f.A, -f.n), SliceTo(f.l, -f.n),
                SliceTo(f.u, -f.n), SliceFrom(f.l, -f.n), SliceFrom(f.u, -f.n))

\* The loader as a function of the file: the raised error, or the Problem.
load_problem_from_mat_file(file) ==
    IF ShapeOk(LoadF(file))
    THEN [raised |-> FALSE,
          value |-> ReturnF(PruneF(StackF(ClassifyF(
                        SplitF(NormalizeF(LoadF(file)))))))]
    ELSE [raised |-> TRUE, value |-> NoProblem]

Load ==
    /\ pc = "load"
    /\ ld' = LoadF(mat_dict)
    /\ pc' = IF ShapeOk(LoadF(mat_dict)) THEN "normalize" ELSE "AssertionError"
    /\ UNCHANGED <<mat_dict, cv, problem, listing, pos, yielded, reads, requests>>

Normalize ==
    /\ pc = "normalize"
    /\ ld' = NormalizeF(ld)
    /\ pc' = "split"
    /\ UNCHANGED <<mat_dict, cv, problem, listing, pos, yielded, reads, requests>>

Split ==
    /\ pc = "split"
    /\ cv' = SplitF(ld)
    /\ pc' = "convert"
    /\ UNCHANGED <<mat_dict, ld, problem, listing, pos, yielded, reads, requests>>

---------------------------------------------------------------------------
(* Specification of the loader followed by the converter: the content of   *)
(* the file is drawn from bounded sets.  l and u have one entry per row of *)
(* A, as every shape written by sif2mat.m has.                             *)

Big(a) == Fin(a, 0, 0)

\* Raw entries of l: -1e20, -9e19, +1e20; of u: -1e20, +9e19, +1e20.
RawL == {Big(-100), Big(-SentinelUnits), Big(100)}
RawU == {Big(-100), Big(SentinelUnits), Big(100)}

\* Raw entries around the threshold: 1e20, 9.1e19, 9e19, 8.9e19, -1e20.
RawAround == <<Big(100), Big(91), Big(SentinelUnits), Big(89), Big(-100)>>

\* The matrix A of a file, r x c: a block of ones over the identity, or
\* entries around the threshold everywhere.
RawA(kind, r, c) ==
    Mat(r, c,
        [i \in 1..r |-> [j \in 1..c |->
            CASE kind = "around" -> RawAround[((i + 2 * j) % 5) + 1]
              [] i > r - c -> IF j = i - (r - c) THEN One ELSE Zero
              [] OTHER -> One]])

RawP(kind, n) ==
    Mat(n, n, [i \in 1..n |-> [j \in 1..n |->
        IF i # j THEN Zero ELSE IF kind = "around" THEN Big(100) ELSE One]])

RawQ(kind, n) ==
    [j \in 1..n |-> IF kind = "around" THEN Big(-100) ELSE Zero]

Kinds == {"ones", "around"}

\* The file of the given kind, dimensions, shape of A and bounds.
MatFile(kind, n, m, r, c, l, u) ==
    [P |-> RawP(kind, n), q |-> RawQ(kind, n), A |-> RawA(kind, r, c),
     l |-> l, u |-> u, n |-> n, m |-> m]

InitLoad ==
    /\ pc = "load"
    /\ \E kind \in Kinds, n \in 0..MaxN, c \in 0..MaxN,
          m \in 0..MaxARows, r \in 0..MaxARows :
          \E l \in [1..r -> RawL], u \in [1..r -> RawU] :
             mat_dict = MatFile(kind, n, m, r, c, l, u)
    /\ ld = NoFile
    /\ cv = NoFrame
    /\ problem = NoProblem
    /\ listing = <<>>
    /\ pos = 0
    /\ yielded = <<>>
    /\ reads = <<>>
    /\ requests = 0

NextLoad == Load \/ Normalize \/ Split \/ Classify \/ Stack \/ Prune \/ Return

SpecLoad == InitLoad /\ [][NextLoad]_vars

---------------------------------------------------------------------------
(* __iter__: a generator.  The consumer's next() resumes it; it runs until *)
(* the next yield, the end of the listing, or an error.                    *)

\* A file name is a sequence of characters; fname.endswith(suffix).
EndsWith(fname, suffix) ==
    /\ Len(fname) >= Len(suffix)
    /\ SubSeq(fname, Len(fname) - Len(suffix) + 1, Len(fname)) = suffix

DotNpz == <<".", "n", "p", "z">>
DotMat == <<".", "m", "a", "t">>

\* YieldPc of a loop that collects instead of yielding.
YieldPcRunning == "running"

\* Where the generator is after a yield: suspended until the next next().
YieldPc == "suspended"

\* line 177: Problem.load(path), the container library's own loader.
ProblemLoad(i) == [entry |-> i, by |-> "Problem.load", value |-> NoProblem]

\* lines 179-181: the problem yielded for a .mat entry.
MatProblem(i, file) ==
    [entry |-> i, by |-> "load_problem_from_mat_file",
     value |-> load_problem_from_mat_file(file).value]

\* The consumer calls next() on the generator.
IterRequest ==
    /\ pc \in {"created", "suspended"}
    /\ pc' = "running"
    /\ requests' = requests + 1
    /\ UNCHANGED <<mat_dict, ld, cv, problem, listing, pos, yielded, reads>>

\* lines 176-177: a .npz entry is loaded and yielded.
IterNpz ==
    /\ pc = "running"
    /\ pos < Len(listing)
    /\ EndsWith(listing[pos + 1].fname, DotNpz)
    /\ reads' = Append(reads, pos + 1)
    /\ yielded' = Append(yielded, ProblemLoad(pos + 1))
    /\ pos' = pos + 1
    /\ pc' = YieldPc
    /\ UNCHANGED <<mat_dict, ld, cv, problem, listing, requests>>

\* lines 178-181: a .mat entry goes through the loader; its assertion
\* error leaves the generator, which is then finished.
IterMat ==
    /\ pc = "running"
    /\ pos < Len(listing)
    /\ ~EndsWith(listing[pos + 1].fname, DotNpz)
    /\ EndsWith(listing[pos + 1].fname, DotMat)
    /\ reads' = Append(reads, pos + 1)
    /\ IF load_problem_from_mat_file(listing[pos + 1].file).raised
       THEN /\ pc' = "AssertionError"
            /\ UNCHANGED <<yielded, pos>>
       ELSE /\ yielded' = Append(yielded, MatProblem(pos + 1, listing[pos + 1].file))
            /\ pos' = pos + 1
            /\ pc' = YieldPc
    /\ UNCHANGED <<mat_dict, ld, cv, problem, listing, requests>>

\* lines 175-178: any other entry is passed over.
IterSkip ==
    /\ pc = "running"
    /\ pos < Len(listing)
    /\ ~EndsWith(listing[pos + 1].fname, DotNpz)
    /\ ~EndsWith(listing[pos + 1].fname, DotMat)
    /\ pos' = pos + 1
    /\ UNCHANGED <<pc, mat_dict, ld, cv, problem, listing, yielded, reads, requests>>

\* line 175: the listing is used up, the generator returns.
IterStop ==
    /\ pc = "running"
    /\ pos = Len(listing)
    /\ pc' = "exhausted"
    /\ UNCHANGED <<mat_dict, ld, cv, problem, listing, pos, yielded, reads, requests>>

---------------------------------------------------------------------------
(* Specification of the iteration: the directory listing is drawn from     *)
(* bounded sets.                                                           *)

\* A file written by sif2mat.m: n = 1, A = [1; 1; 1] is 3 x 1, m = 3.
GoodMat ==
    MatFile("ones", 1, 3, 3, 1,
            <<Big(-100), Big(-SentinelUnits), Big(-100)>>,
            <<Big(SentinelUnits), Big(SentinelUnits), Big(100)>>)

\* The same file with m declared as the number of rows of C: m = 2.
BadMat ==
    MatFile("ones", 1, 2, 3, 1,
            <<Big(-100), Big(-SentinelUnits), Big(-100)>>,
            <<Big(SentinelUnits), Big(SentinelUnits), Big(100)>>)

\* Entries of the data directory: "a.npz", "b.mat" (either file), "c.txt"
\* and "dnpz".
DirEntries ==
    {[fname |-> <<"a", ".", "n", "p", "z">>, file |-> NoFile],
     [fname |-> <<"b", ".", "m", "a", "t">>, file |-> GoodMat],
     [fname |-> <<"b", ".", "m", "a", "t">>, file |-> BadMat],
     [fname |-> <<"c", ".", "t", "x", "t">>, file |-> NoFile],
     [fname |-> <<"d", "n", "p", "z">>, file |-> NoFile]}

InitIter ==
    /\ pc = "created"
    /\ \E k \in 0..MaxFiles : listing \in [1..k -> DirEntries]
    /\ pos = 0
    /\ yielded = <<>>
    /\ reads = <<>>
    /\ requests = 0
    /\ mat_dict = NoFile
    /\ ld = NoFile
    /\ cv = NoFrame
    /\ problem = NoProblem

NextIter == IterRequest \/ IterNpz \/ IterMat \/ IterSkip \/ IterStop

SpecIter == InitIter /\ [][NextIter]_vars

---------------------------------------------------------------------------
(* Claims about the converter, under SpecConvert.                          *)

Converted == pc \in {"return", "returned"}

\* The rows the code classifies as equality / inequality rows.
NumEq == Cardinality({i \in 1..Len(cv.l) : Lt(Sub(cv.u[i], cv.l[i]), Tol)})

PairOk(M, v, rows) ==
    IF rows = 0
    THEN M = None /\ v = None
    ELSE M.some /\ v.some /\ M.val.nrows = rows /\ Len(v.val) = rows

\* C1: in the returned problem each pair (G, h), (A_eq, b_eq) is absent
\* exactly when it has zero rows (no inequality row survives pruning, resp.
\* no row is an equality row), and otherwise both members are present with
\* the same number of rows, also when C has all-zero rows.
C1_PairAbsentIffZeroRows ==
    pc = "returned" =>
        /\ PairOk(problem.G, problem.h, Len(cv.h))
        /\ PairOk(problem.A, problem.b, NumEq)

\* The per-row decision: for the rows not classified as equality, the
\* upper rows with u # +inf, then the lower rows with l # -inf.
UpperKept ==
    Nonzero([i \in 1..Len(cv.l) |->
                ~cv.bounds_are_equal[i] /\ cv.u[i] # PInf])
LowerKept ==
    Nonzero([i \in 1..Len(cv.l) |->
                ~cv.bounds_are_equal[i] /\ cv.l[i] # NInf])

\* C2: after stacking and pruning, (G, h) holds exactly the rows of the
\* per-row decision: (C[i], u[i]) iff u[i] is not +inf and (-C[i], -l[i])
\* iff l[i] is not -inf, for the rows i not classified as equality, and no
\* row for an equality row.
C2_RowsArePerRowDecision ==
    Converted =>
        /\ cv.G.rows =
              [j \in 1..Len(UpperKept) |-> cv.C.rows[UpperKept[j]]]
              \o [j \in 1..Len(LowerKept) |->
                    [c \in 1..cv.C.ncols |-> Neg(cv.C.rows[LowerKept[j]][c])]]
        /\ cv.h =
              [j \in 1..Len(UpperKept) |-> cv.u[UpperKept[j]]]
              \o [j \in 1..Len(LowerKept) |-> Neg(cv.l[LowerKept[j]])]
        /\ cv.G.nrows = Len(UpperKept) + Len(LowerKept)

\* A converted input with a row (l = -inf, u finite), giving one row, and
\* a row with two distinct finite bounds, giving two.
C2_Witness ==
    /\ Converted
    /\ \E i, j \in 1..Len(cv.l) :
          /\ cv.l[i] = NInf /\ cv.u[i].k = "fin"
          /\ cv.l[j] = Zero /\ cv.u[j] = Tol
    /\ Len(cv.h) = 3

\* The rows with u[i] - l[i] < 1e-10, stated on the values.
StrictlyWithin(i) ==
    \/ cv.u[i].k = "ninf" /\ cv.l[i].k # "ninf"
    \/ cv.l[i].k = "pinf" /\ cv.u[i].k # "pinf"
    \/ /\ cv.u[i].k = "fin" /\ cv.l[i].k = "fin"
       /\ LexLt(<<cv.u[i].v[1] - cv.l[i].v[1], cv.u[i].v[2] - cv.l[i].v[2],
                  cv.u[i].v[3] - cv.l[i].v[3]>>, <<0, 0, TolUnits>>)
EqKept == Nonzero([i \in 1..Len(cv.l) |-> StrictlyWithin(i)])

\* C3: row i is an equality row iff u[i] - l[i] < 1e-10, strictly (width
\* exactly 1e-10: inequality row; width 0.999e-10: equality row), and the
\* equality rows appear in (A_eq, b_eq) as (C[i], u[i]).
C3_EqualityIffStrictlyWithinTol ==
    pc # "convert" =>
        /\ \A i \in 1..Len(cv.l) : cv.bounds_are_equal[i] <=> StrictlyWithin(i)
        /\ cv.A.rows = [j \in 1..Len(EqKept) |-> cv.C.rows[EqKept[j]]]
        /\ cv.A.nrows = Len(EqKept)
        /\ cv.b = [j \in 1..Len(EqKept) |-> cv.u[EqKept[j]]]

\* A classified input with a row of width exactly 1e-10 and a row of width
\* 0.999e-10.
C3_Witness ==
    /\ pc = "stack"
    /\ \E i, j \in 1..Len(cv.l) :
          /\ cv.l[i] = Zero /\ cv.u[i] = Tol /\ ~cv.bounds_are_equal[i]
          /\ cv.l[j] = Zero /\ cv.u[j] = Fin(0, 0, TolUnits - 1)
          /\ cv.bounds_are_equal[j]

\* C4: after pruning h has no +inf entry and G has one row per entry of h,
\* and the h of the returned problem, when present, has no +inf entry.
C4_NoPlusInfInH ==
    /\ Converted =>
          /\ \A i \in 1..Len(cv.h) : cv.h[i] # PInf
          /\ cv.G.nrows = Len(cv.h) /\ Len(cv.G.rows) = Len(cv.h)
    /\ (pc = "returned" /\ problem.h.some) =>
          \A i \in 1..Len(problem.h.val) : problem.h.val[i] # PInf

\* A returned problem with h present, from an input of which a stacked row
\* had right-hand side +inf.
C4_Witness ==
    /\ pc = "returned"
    /\ problem.h.some
    /\ \E i \in 1..Len(cv.l) : ~cv.bounds_are_equal[i] /\ cv.u[i] = PInf
    /\ \E i \in 1..Len(cv.l) : ~cv.bounds_are_equal[i] /\ cv.l[i] = NInf

\* C10: every equality row has |u[i] - l[i]| < 1e-10 and a finite b_eq
\* entry u[i], also when l[i] > u[i] or a bound is infinite.
C10_EqualityRowsWithinTol ==
    pc # "convert" =>
        \A i \in 1..Len(cv.l) :
            cv.bounds_are_equal[i] =>
                /\ Lt(Abs(Sub(cv.u[i], cv.l[i])), Tol)
                /\ cv.u[i].k = "fin"

---------------------------------------------------------------------------
(* Claims about the loader followed by the converter, under SpecLoad.      *)

Split_Done == pc \in {"convert", "stack", "prune", "return", "returned"}

HasNegInf(h) == h.some /\ \E i \in 1..Len(h.val) : h.val[i] = NInf

\* C5 as stated: the h of a problem produced by the loader and the
\* converter has no -inf entry.
C5_NoMinusInfInH == pc = "returned" => ~HasNegInf(problem.h)

\* The constraint rows (those handed to the converter) whose raw l and u
\* are both beyond the same sentinel.
SameInfinityRow(i) ==
    \/ Gt(mat_dict.l[i], Sentinel) /\ Gt(mat_dict.u[i], Sentinel)
    \/ Lt(mat_dict.l[i], Neg(Sentinel)) /\ Lt(mat_dict.u[i], Neg(Sentinel))

\* C5 amended: h has a -inf entry exactly when some constraint row has l
\* and u both above +9e19 or both below -9e19.
C5_MinusInfIffSameInfinity ==
    pc = "returned" =>
        (HasNegInf(problem.h) <=> \E i \in 1..Len(cv.l) : SameInfinityRow(i))

\* A returned problem with h present and without -inf, from a file with a
\* constraint row whose l is above +9e19.
C5_Witness ==
    /\ pc = "returned"
    /\ problem.h.some
    /\ ~HasNegInf(problem.h)
    /\ \E i \in 1..Len(cv.l) : Gt(mat_dict.l[i], Sentinel)

\* y is x with a magnitude above 9e19 replaced by the infinity of its sign.
NormalizedAs(x, y) ==
    y = IF Lt(Sentinel, Abs(x)) THEN (IF Lt(x, Zero) THEN NInf ELSE PInf) ELSE x

VecNormalized(v, w) ==
    Len(w) = Len(v) /\ \A i \in 1..Len(v) : NormalizedAs(v[i], w[i])

MatNormalized(M, N) ==
    /\ N.nrows = M.nrows /\ N.ncols = M.ncols
    /\ \A i \in 1..M.nrows : VecNormalized(M.rows[i], N.rows[i])

\* C6 as stated: every entry of P, q, A, l and u of magnitude above 9e19
\* is replaced by the infinity of its sign, the others are unchanged.
C6_AllFieldsNormalized ==
    Split_Done =>
        /\ MatNormalized(mat_dict.A, ld.A)
        /\ VecNormalized(mat_dict.l, ld.l) /\ VecNormalized(mat_dict.u, ld.u)
        /\ MatNormalized(mat_dict.P, cv.P) /\ VecNormalized(mat_dict.q, cv.q)

\* C6 amended: every entry of A, l and u of magnitude strictly above 9e19
\* is replaced by the infinity of its sign and the others are unchanged;
\* P and q are handed on as loaded.
C6_ALUNormalized ==
    (pc = "split" \/ Split_Done) =>
        /\ MatNormalized(mat_dict.A, ld.A)
        /\ VecNormalized(mat_dict.l, ld.l) /\ VecNormalized(mat_dict.u, ld.u)
        /\ ld.P = mat_dict.P /\ ld.q = mat_dict.q
        /\ (Split_Done => cv.P = mat_dict.P /\ cv.q = mat_dict.q)

Holds(M, x) == \E i \in 1..M.nrows : \E j \in 1..M.ncols : M.rows[i][j] = x

\* A normalised file whose A holds 1e20, 9.1e19, 9e19, 8.9e19 and -1e20,
\* whose l holds -9e19 and whose P holds 1e20.
C6_Witness ==
    /\ pc = "split"
    /\ \A k \in 1..5 : Holds(mat_dict.A, RawAround[k])
    /\ Holds(ld.A, PInf) /\ Holds(ld.A, NInf) /\ Holds(ld.A, Sentinel)
    /\ \E i \in 1..Len(ld.l) : ld.l[i] = Neg(Sentinel)
    /\ Holds(mat_dict.P, Big(100))

\* M is an r x n matrix whose last n rows are the identity.
IsStacked(M, n) ==
    /\ M.ncols = n /\ M.nrows >= n
    /\ \A i \in 1..n : \A j \in 1..n :
          M.rows[M.nrows - n + i][j] = IF i = j THEN One ELSE Zero

LastN(v, n) == SubSeq(v, Len(v) - n + 1, Len(v))

\* C8: for a file that passes the shape check, lb and ub have length n and
\* are the last n entries of the normalised l and u, for all m, n >= 0.
C8_BoxBoundsHaveLengthN ==
    Split_Done =>
        /\ Len(cv.lb) = mat_dict.n /\ Len(cv.ub) = mat_dict.n
        /\ mat_dict.n <= Len(ld.l) =>
              /\ cv.lb = LastN(ld.l, mat_dict.n)
              /\ cv.ub = LastN(ld.u, mat_dict.n)

---------------------------------------------------------------------------
(* Claim about the iteration, under SpecIter.                              *)

Matching(i) ==
    \/ EndsWith(listing[i].fname, DotNpz)
    \/ EndsWith(listing[i].fname, DotMat)

\* The matching entries among the first k of the listing, in order.
MatchingUpTo(k) == Nonzero([i \in 1..k |-> Matching(i)])

ExpectedProblem(i) ==
    IF EndsWith(listing[i].fname, DotNpz)
    THEN [entry |-> i, by |-> "Problem.load", value |-> NoProblem]
    ELSE [entry |-> i, by |-> "load_problem_from_mat_file",
          value |-> convert_problem_from_double_sided(
                        listing[i].file.P, listing[i].file.q,
                        RowsTo(NormalizeMat(listing[i].file.A), -listing[i].file.n),
                        SliceTo(NormalizeVec(listing[i].file.l), -listing[i].file.n),
                        SliceTo(NormalizeVec(listing[i].file.u), -listing[i].file.n),
                        SliceFrom(NormalizeVec(listing[i].file.l), -listing[i].file.n),
                        SliceFrom(NormalizeVec(listing[i].file.u), -listing[i].file.n))]

\* C9: the problems yielded are those of the entries ending in .npz or
\* .mat among the entries gone through, one each and in listing order (a
\* .npz entry through Problem.load, a .mat entry through the loader and the
\* converter); when the generator is exhausted every entry has been gone
\* through; and a file is read only on the consumer's request: no more
\* files have been read than problems requested, and while the consumer
\* holds control every file read has had its problem yielded.
C9_LazyOnePerMatchingEntry ==
    /\ yielded = [j \in 1..Len(MatchingUpTo(pos)) |->
                    ExpectedProblem(MatchingUpTo(pos)[j])]
    /\ reads = MatchingUpTo(pos)
                 \o (IF pc = "AssertionError" THEN <<pos + 1>> ELSE <<>>)
    /\ pc = "exhausted" => pos = Len(listing)
    /\ Len(reads) <= requests
    /\ pc \in {"created", "suspended"} => Len(yielded) = requests

\* An exhausted iteration over a listing with a .npz entry, a .mat entry
\* and another entry, having yielded two problems.
C9_Witness ==
    /\ pc = "exhausted"
    /\ Len(listing) = 3
    /\ Len(yielded) = 2
    /\ yielded[1].by = "load_problem_from_mat_file"
    /\ yielded[2].by = "Problem.load"
    /\ yielded[2].entry = 3

===========================================================================
